---------------------------- MODULE Spec2Model ----------------------------
(***************************************************************************)
(* A model of rusty-termcolor: the colour model (colors.rs), the           *)
(* formatting helpers (formatting.rs), the timed effects (effects.rs) and  *)
(* banner composition (styles/banners.rs).                                 *)
(*                                                                         *)
(* Every public function is one action: the action picks the arguments,    *)
(* runs the whole function and records the call, its outcome and return    *)
(* value, and what it wrote to standard output.                            *)
(***************************************************************************)
EXTENDS Integers, Sequences, FiniteSets, TLC

VARIABLES
    call,    \* the call that ran last: its name and arguments
    ret,     \* its outcome ("ok", "panic", "abort") and returned value
    stdout,  \* what that call wrote to standard output, in order
    term     \* the last escape sequence standard output has received so far

vars == <<call, ret, stdout, term>>

-----------------------------------------------------------------------------
(* The shapes of the values *)

\* One 8-bit channel, and struct Color { r, g, b }
ChannelType == 0..255
ColorType == ChannelType \X ChannelType \X ChannelType

\* A character, or an escape sequence ESC [ params m
TokenType == [kind : {"chr", "sgr"}, ch : STRING, params : Seq(Nat)]
StringType == Seq(TokenType)

\* struct EffectSettings { delay, iterations, width }
SettingsType == [delay : Nat, iterations : Nat, width : Nat]

\* The fields a call record is made of: the function and its arguments.
CallType ==
    [op : STRING, ascii_art : StringType, text : StringType, start : ColorType,
     end : ColorType, steps : Nat, headers : Seq(StringType),
     rows : Seq(Seq(StringType)), total : Nat, settings : SettingsType,
     color : ColorType \cup Seq(ColorType), colors : Seq(ColorType), style : Nat,
     padding : Nat, position : {"Top", "Middle", "Bottom"}, size : Seq(Nat),
     overflow_checks : BOOLEAN]

\* How a call ended, what it returned and what it wrote.
Outcomes == {"ok", "panic", "abort"}
ResultType == [outcome : Outcomes, value : StringType, out : StringType]

-----------------------------------------------------------------------------
(* Bounds of the model *)

MaxSteps == 4      \* fade_color: steps is drawn from 0..MaxSteps
MaxTextLen == 2    \* effects: texts have at most this many characters
MaxIterations == 2 \* effects: settings.iterations is drawn from 0..MaxIterations
MaxTotal == 10     \* progress_spinner, loading_bar: total is drawn from 0..MaxTotal
MaxWidth == 3      \* loading_bar: settings.width is drawn from 1..MaxWidth
MaxStrLen == 3     \* layout: strings have at most this many characters
MaxCols == 2       \* create_table: at most this many headers
MaxCells == 2      \* create_table: at most this many cells in a row
MaxRows == 2       \* create_table: at most this many rows
MaxArtLen == 3     \* Banner: the ASCII art has at most this many characters
MaxPadding == 1    \* Banner: padding is drawn from 0..MaxPadding
MaxColors == 2     \* print_fade: at most this many colours

-----------------------------------------------------------------------------
(* General helpers *)

Max2(a, b) == IF a >= b THEN a ELSE b

RECURSIVE SeqsUpTo(_, _)
\* All sequences over S of length at most n.
SeqsUpTo(S, n) ==
    IF n = 0 THEN {<<>>}
    ELSE LET shorter == SeqsUpTo(S, n - 1)
         IN  shorter \cup {Append(s, x) : s \in {t \in shorter : Len(t) = n - 1}, x \in S}

RECURSIVE Concat(_)
\* The concatenation of a sequence of sequences.
Concat(ss) == IF ss = <<>> THEN <<>> ELSE Head(ss) \o Concat(Tail(ss))

Repeat(x, n) == [k \in 1..n |-> x]

RECURSIVE BitLen(_)
\* Number of binary digits of n.
BitLen(n) == IF n = 0 THEN 0 ELSE 1 + BitLen(n \div 2)

-----------------------------------------------------------------------------
(* IEEE-754 single precision, as far as the library uses it.               *)
(*                                                                         *)
(* A non-negative f32 is held exactly as ip + fp / 2^FracBits.  Every      *)
(* value the library computes is either a NaN or a multiple of             *)
(* 2^-FracBits below 2^9, provided the divisor of a division is at most    *)
(* 2^6.  Each operation computes the exact result and rounds it to the     *)
(* MantBits-bit significand, ties to even.                                 *)

MantBits == 24
FracBits == MantBits + 6
FracUnit == 2 ^ FracBits
HalfUnit == 2 ^ (FracBits \div 2)

F32Nan == [nan |-> TRUE, ip |-> 0, fp |-> 0]
F32(ip, fp) == [nan |-> FALSE, ip |-> ip, fp |-> fp]

\* The exact value ip + fp/2^FracBits (plus a non-zero excess below one unit
\* when sticky) rounded to the nearest f32, ties to even.
RoundF32(ip, fp, sticky) ==
    LET bits == IF ip > 0 THEN FracBits + BitLen(ip) ELSE BitLen(fp)
    IN  IF bits <= MantBits THEN F32(ip, fp)
        ELSE LET q    == 2 ^ (bits - MantBits)
                 keep == fp \div q
                 rem  == fp % q
                 up   == \/ 2 * rem > q
                         \/ 2 * rem = q /\ (sticky \/ keep % 2 = 1)
                 f2   == (IF up THEN keep + 1 ELSE keep) * q
             IN  IF f2 >= FracUnit THEN F32(ip + 1, f2 - FracUnit) ELSE F32(ip, f2)

RECURSIVE DivBits(_, _, _, _)
\* Long division: <<quotient, remainder>> of (r * 2^k) by d, for r < d.
DivBits(r, d, k, q) ==
    IF k = 0 THEN <<q, r>>
    ELSE IF 2 * r >= d THEN DivBits(2 * r - d, d, k - 1, 2 * q + 1)
         ELSE DivBits(2 * r, d, k - 1, 2 * q)

\* n as f32 / d as f32, for integers 0 <= n <= d (the only divisions the
\* library makes); 0.0 / 0.0 is a NaN.
F32Div(n, d) ==
    IF d = 0 THEN F32Nan
    ELSE IF n = d THEN F32(1, 0)
    ELSE LET qr == DivBits(n, d, FracBits, 0)
         IN  RoundF32(0, qr[1], qr[2] > 0)

\* 1.0 - t, for 0 <= t <= 1.
F32OneMinus(t) ==
    IF t.nan THEN F32Nan
    ELSE IF t.ip = 1 THEN F32(0, 0)
    ELSE IF t.fp = 0 THEN F32(1, 0)
    ELSE RoundF32(0, FracUnit - t.fp, FALSE)

\* k as f32 * x, for an integer 0 <= k < 2^8 and 0 <= x <= 1.
F32MulInt(k, x) ==
    IF x.nan THEN F32Nan
    ELSE LET fh  == x.fp \div HalfUnit
             fl  == x.fp % HalfUnit
             lo  == k * fl
             s   == k * fh + lo \div HalfUnit
             low == lo % HalfUnit
         IN  RoundF32(k * x.ip + s \div HalfUnit, (s % HalfUnit) * HalfUnit + low, FALSE)

\* a + b.
F32Add(a, b) ==
    IF a.nan \/ b.nan THEN F32Nan
    ELSE LET f == a.fp + b.fp
         IN  IF f >= FracUnit THEN RoundF32(a.ip + b.ip + 1, f - FracUnit, FALSE)
             ELSE RoundF32(a.ip + b.ip, f, FALSE)

\* x as u8: a saturating cast, a NaN becomes 0.
F32AsU8(x) == IF x.nan THEN 0 ELSE IF x.ip > 255 THEN 255 ELSE x.ip

\* x as usize: a NaN becomes 0.
F32AsUsize(x) == IF x.nan THEN 0 ELSE x.ip

-----------------------------------------------------------------------------
(* colors.rs *)

\* Color { r, g, b }
Color(r, g, b) == <<r, g, b>>
rgb(c) == <<c[1], c[2], c[3]>>

RED    == Color(255, 0, 0)
BLUE   == Color(0, 0, 255)
WHITE  == Color(255, 255, 255)
BLACK  == Color(0, 0, 0)

U8  == 2 ^ 8
U16 == 2 ^ 16

\* channel as u16 * 5 / 255, then `as u8`
Band(ch) == (((ch * 5) % U16) \div 255) % U8

\* to_256_color with the channel not widened to u16 before it is multiplied by 5.
to_256_color_narrow(c) ==
    LET bandOf(x) == ((x * 5) % U8) \div 255
        sum == 16 + 36 * bandOf(c[1]) + 6 * bandOf(c[2]) + bandOf(c[3])
    IN  [value    |-> sum % U8,
         overflow |-> c[1] * 5 >= U8 \/ c[2] * 5 >= U8 \/ c[3] * 5 >= U8]

\* to_256_color: 16 + 36 * band(r) + 6 * band(g) + band(b), evaluated left to
\* right in u8 with every step wrapped; overflow tells whether a step left its
\* type (an overflow panics in a build with overflow checks).
to_256_color(c) ==
    LET r  == rgb(c)[1]
        g  == rgb(c)[2]
        b  == rgb(c)[3]
        m1 == 36 * Band(r)
        s1 == 16 + (m1 % U8)
        m2 == 6 * Band(g)
        s2 == (s1 % U8) + (m2 % U8)
        s3 == (s2 % U8) + Band(b)
    IN  [value    |-> s3 % U8,
         overflow |-> \/ r * 5 >= U16 \/ g * 5 >= U16 \/ b * 5 >= U16
                      \/ m1 >= U8 \/ s1 >= U8 \/ m2 >= U8 \/ s2 >= U8 \/ s3 >= U8]

\* One channel of one step of fade_color.
FadeChannel(c1, c2, t) ==
    F32AsU8(F32Add(F32MulInt(c1, F32OneMinus(t)), F32MulInt(c2, t)))

\* fade_color(start, end, steps): the closure runs for i in 0..steps
fade_color(start, end, steps) ==
    [k \in 1..steps |->
        LET i == k - 1
            t == F32Div(i, steps - 1)
        IN  Color(FadeChannel(rgb(start)[1], rgb(end)[1], t),
                  FadeChannel(rgb(start)[2], rgb(end)[2], t),
                  FadeChannel(rgb(start)[3], rgb(end)[3], t))]


-----------------------------------------------------------------------------
(* Strings and standard output.                                            *)
(*                                                                         *)
(* A string is a sequence of tokens.  A token is one character or one      *)
(* escape sequence ESC [ p1 ; p2 ; ... m, held by its parameters.          *)

Chr(c) == [kind |-> "chr", ch |-> c, params |-> <<>>]
Sgr(ps) == [kind |-> "sgr", ch |-> "", params |-> ps]

\* pub const RESET: &str = "\x1B[0m"
RESET == Sgr(<<0>>)

\* impl fmt::Display for Color: "\x1B[38;2;{r};{g};{b}m"
ColorSeq(c) == Sgr(<<38, 2, c[1], c[2], c[3]>>)

IsColorSeq(tok) ==
    tok.kind = "sgr" /\ Len(tok.params) = 5 /\ tok.params[1] = 38 /\ tok.params[2] = 2
IsEscape(tok) == tok.kind = "sgr"

CR == Chr("\r")
NL == Chr("\n")
SP == Chr(" ")

Digits == <<"0", "1", "2", "3", "4", "5", "6", "7", "8", "9">>

RECURSIVE ToDecimal(_)
\* "{n}" for an unsigned integer n.
ToDecimal(n) ==
    IF n < 10 THEN <<Chr(Digits[n + 1])>>
    ELSE Append(ToDecimal(n \div 10), Chr(Digits[(n % 10) + 1]))

\* The escape sequences of a string, in order.
Escapes(s) == SelectSeq(s, IsEscape)

\* The last escape sequence standard output holds once `out` is written after
\* a history whose last escape sequence was `before` (<<>> when there is none).
LastEscape(before, out) ==
    IF Escapes(out) = <<>> THEN before
    ELSE <<Escapes(out)[Len(Escapes(out))]>>

\* Option<&Color>: None is <<>>, Some(c) is <<c>>.
None == <<>>
Some(c) == <<c>>
ColorPrefix(color) == IF color = None THEN <<>> ELSE <<ColorSeq(color[1])>>
ResetIfSome(color) == IF color = None THEN <<>> ELSE <<RESET>>

\* Uniform results of a call.
Ok(value, out) == [outcome |-> "ok", value |-> value, out |-> out]
Panic(out) == [outcome |-> "panic", value |-> <<>>, out |-> out]
Abort(out) == [outcome |-> "abort", value |-> <<>>, out |-> out]

-----------------------------------------------------------------------------
(* formatting.rs: the printing functions *)

\* print!("{color}{text}{RESET}")
print_colored(text, color) == Ok(<<>>, <<ColorSeq(color)>> \o text \o <<RESET>>)

\* println!("{color}{text}{RESET}")
println_colored(text, color) == Ok(<<>>, <<ColorSeq(color)>> \o text \o <<RESET, NL>>)

\* color_index of character i (counted from 0)
FadeIndex(i, color_count, char_count) == (i * color_count) \div char_count

\* What print_fade writes for the characters 0..n-1.
FadeOut(chars, colors, n) ==
    Concat([k \in 1..n |->
        <<ColorSeq(colors[FadeIndex(k - 1, Len(colors), Len(chars)) + 1]), chars[k]>>])

\* print_fade: colors[color_index] panics when color_index is out of bounds;
\* what the earlier iterations printed has been written by then.
print_fade(text, colors) ==
    LET chars == text
        color_count == Len(colors)
        oob == {k \in 1..Len(chars) :
                    FadeIndex(k - 1, color_count, Len(chars)) >= color_count}
    IN  IF oob = {}
        THEN Ok(<<>>, FadeOut(chars, colors, Len(chars)) \o <<RESET>>)
        ELSE LET first == CHOOSE k \in oob : \A j \in oob : k <= j
             IN  Panic(FadeOut(chars, colors, first - 1))

-----------------------------------------------------------------------------
(* effects.rs *)

\* impl Default for EffectSettings
default_settings == [delay |-> 50, iterations |-> 3, width |-> 20]

\* char::to_uppercase().next() and char::to_lowercase().next()
Upper(tok) ==
    IF tok = Chr("a") THEN Chr("A") ELSE IF tok = Chr("b") THEN Chr("B") ELSE tok
Lower(tok) ==
    IF tok = Chr("A") THEN Chr("a") ELSE IF tok = Chr("B") THEN Chr("b") ELSE tok

\* typewriter: one print per character, RESET at the end when a colour is given
typewriter(text, settings, color) ==
    Ok(<<>>,
       Concat([k \in 1..Len(text) |-> ColorPrefix(color) \o <<text[k]>>])
       \o ResetIfSome(color))

\* wiggle: the line of step i (counted from 0)
WiggleLine(chars, i) ==
    [k \in 1..Len(chars) |-> IF k - 1 = i THEN Upper(chars[k]) ELSE Lower(chars[k])]

WiggleFrame(chars, i, color) == <<CR>> \o ColorPrefix(color) \o WiggleLine(chars, i)

\* The same frame with RESET written after each line.
WiggleResetEachFrame(text, settings, color) ==
    Ok(<<>>,
       Concat([n \in 1..settings.iterations |->
           Concat([k \in 1..Len(text) |->
               WiggleFrame(text, k - 1, color) \o ResetIfSome(color)])])
       \o <<NL>>)

wiggle(text, settings, color) ==
    Ok(<<>>,
       Concat([n \in 1..settings.iterations |->
           Concat([k \in 1..Len(text) |-> WiggleFrame(text, k - 1, color)])])
       \o ResetIfSome(color) \o <<NL>>)

\* let symbols = "!@#$%^&*()_+-=[]{}|;:,.<>?"
symbols ==
    <<"!", "@", "#", "$", "%", "^", "&", "*", "(", ")", "_", "+", "-", "=",
      "[", "]", "{", "}", "|", ";", ":", ",", ".", "<", ">", "?">>

\* Random draws one pass of matrix_effect makes over n characters.
DrawsPerPass(n) == (n * (n - 1)) \div 2

\* Draws made in one pass before step i (counted from 0): step h draws n-1-h.
DrawsBefore(n, i) == (i * (2 * n - 1 - i)) \div 2

\* matrix_effect: the line of step i of pass n (both counted from 0); draws is
\* the sequence rng.gen_range(0..symbols.len()) returns, in call order.
MatrixLine(chars, n, i, draws) ==
    [k \in 1..Len(chars) |->
        IF k - 1 <= i THEN chars[k]
        ELSE Chr(symbols[draws[n * DrawsPerPass(Len(chars))
                               + DrawsBefore(Len(chars), i) + (k - 1 - i)] + 1])]

matrix_effect(text, settings, color, draws) ==
    Ok(<<>>,
       Concat([n \in 1..settings.iterations |->
           Concat([k \in 1..Len(text) |->
               <<CR>> \o ColorPrefix(color) \o MatrixLine(text, n - 1, k - 1, draws)])])
       \o ResetIfSome(color) \o <<NL>>)

\* rainbow_text: the fixed spectrum
rainbow_colors ==
    <<Color(255, 0, 0), Color(255, 127, 0), Color(255, 255, 0), Color(0, 255, 0),
      Color(0, 0, 255), Color(75, 0, 130), Color(143, 0, 255)>>

rainbow_text(text, settings) ==
    Ok(<<>>,
       Concat([n \in 1..settings.iterations |->
           Concat([k \in 1..Len(rainbow_colors) |->
               <<CR>>
               \o Concat([j \in 1..Len(text) |->
                      <<ColorSeq(rainbow_colors[(((k - 1) + (j - 1)) % Len(rainbow_colors)) + 1]),
                        text[j]>>])
               \o <<RESET>>])])
       \o <<NL>>)

\* loading_bar: (i as f32 / total as f32 * settings.width as f32) as usize
BarProgress(i, total, width) == F32AsUsize(F32MulInt(width, F32Div(i, total)))

BarFrame(i, total, width, color) ==
    <<CR, ColorSeq(color), Chr("[")>>
    \o Repeat(Chr("U+2593"), BarProgress(i, total, width))
    \o Repeat(Chr("U+2591"), width - BarProgress(i, total, width))
    \o <<Chr("]"), SP>> \o ToDecimal(i) \o <<Chr("/")>> \o ToDecimal(total)
    \o <<RESET>>

\* loading_bar: settings.width - progress cannot be computed when progress
\* exceeds the width (an overflow panic, or a wrapped width no allocation holds);
\* the earlier frames have been written by then.
loading_bar(total, settings, color) ==
    LET over == {i \in 0..total : BarProgress(i, total, settings.width) > settings.width}
    IN  IF over = {}
        THEN Ok(<<>>,
                Concat([k \in 1..(total + 1) |-> BarFrame(k - 1, total, settings.width, color)])
                \o <<NL>>)
        ELSE LET first == CHOOSE i \in over : \A j \in over : i <= j
             IN  Panic(Concat([k \in 1..first |-> BarFrame(k - 1, total, settings.width, color)]))

\* progress_spinner: let spinner_chars = match style { ... }
spinner_chars(style) ==
    IF style = 1
    THEN <<"U+280B", "U+2819", "U+2839", "U+2838", "U+283C",
           "U+2834", "U+2826", "U+2827", "U+2807", "U+280F">>
    ELSE IF style = 2
    THEN <<"U+2190", "U+2196", "U+2191", "U+2197", "U+2192", "U+2198", "U+2193", "U+2199">>
    ELSE <<"|", "/", "-", "\\">>

SpinnerFrame(i, total, color, style) ==
    <<CR, ColorSeq(color),
      Chr(spinner_chars(style)[(i % Len(spinner_chars(style))) + 1]), SP>>
    \o ToDecimal(i) \o <<Chr("/")>> \o ToDecimal(total)

\* The same without the closing RESET.
SpinnerNoReset(total, settings, color, style) ==
    Ok(<<>>,
       Concat([k \in 1..(total + 1) |-> SpinnerFrame(k - 1, total, color, style)])
       \o <<NL>>)

\* The same with the glyph chosen by i mod 8 whatever the style.
SpinnerModEight(total, settings, color, style) ==
    Ok(<<>>,
       Concat([k \in 1..(total + 1) |->
           <<CR, ColorSeq(color),
             Chr(spinner_chars(style)[(((k - 1) % 8) % Len(spinner_chars(style))) + 1]), SP>>
           \o ToDecimal(k - 1) \o <<Chr("/")>> \o ToDecimal(total)])
       \o <<RESET, NL>>)

progress_spinner(total, settings, color, style) ==
    Ok(<<>>,
       Concat([k \in 1..(total + 1) |-> SpinnerFrame(k - 1, total, color, style)])
       \o <<RESET, NL>>)

-----------------------------------------------------------------------------
(* formatting.rs: layout *)

\* Bytes of one character in UTF-8; "E9" stands for U+00E9, a two-byte character.
Utf8Len(tok) == IF tok.ch = "E9" THEN 2 ELSE 1

RECURSIVE ByteLen(_)
\* str::len(): the length in bytes
ByteLen(s) == IF s = <<>> THEN 0 ELSE Utf8Len(Head(s)) + ByteLen(Tail(s))

\* format!("{:>width$}", s): padded on the left to `width` characters
PadLeft(s, width) == Repeat(SP, Max2(0, width - Len(s))) \o s

\* format!("{:<width$}", s): padded on the right to `width` characters
PadRight(s, width) == s \o Repeat(SP, Max2(0, width - Len(s)))

\* terminal_size().map(|(Width(w), _)| w as usize).unwrap_or(80)
TerminalWidth(size) == IF size = None THEN 80 ELSE size[1]

\* center_text.  width - text.len() underflows when the text is longer than the
\* terminal is wide: with overflow checks that panics; without them the
\* padding wraps to at least 2^62 and format! cannot build a string that long.
center_text(text, size, overflow_checks) ==
    LET width == TerminalWidth(size)
    IN  IF ByteLen(text) > width
        THEN IF overflow_checks THEN Panic(<<>>) ELSE Abort(<<>>)
        ELSE LET padding == (width - ByteLen(text)) \div 2
             IN  Ok(PadLeft(text, padding + ByteLen(text)), <<>>)

RECURSIVE Join(_, _)
\* [..].join(sep)
Join(parts, sep) ==
    IF parts = <<>> THEN <<>>
    ELSE IF Len(parts) = 1 THEN parts[1]
    ELSE parts[1] \o sep \o Join(Tail(parts), sep)

RECURSIVE MaxOf(_)
\* Iterator::max().unwrap_or(0) over a sequence of lengths
MaxOf(ns) == IF ns = <<>> THEN 0 ELSE Max2(Head(ns), MaxOf(Tail(ns)))

\* row.get(i).map_or(0, |cell| cell.len()), i counted from 1
CellLen(row, i) == IF i <= Len(row) THEN ByteLen(row[i]) ELSE 0

\* create_table: let column_widths
ColumnWidths(headers, rows) ==
    [i \in 1..Len(headers) |->
        Max2(MaxOf([r \in 1..Len(rows) |-> CellLen(rows[r], i)]), ByteLen(headers[i]))]

\* A border line between the corner characters l and r, joined by mid.
TableBorder(column_widths, l, mid, r, color_str, reset_str) ==
    color_str \o <<Chr(l)>>
    \o Join([i \in 1..Len(column_widths) |-> Repeat(Chr("U+2550"), column_widths[i] + 2)],
            <<Chr(mid)>>)
    \o <<Chr(r)>> \o reset_str \o <<NL>>

\* The header line, and a data line: one padded cell per element of `cells`.
\* Every index is within column_widths when this is evaluated.
TableLine(cells, column_widths, color_str, reset_str) ==
    color_str \o <<Chr("U+2551"), SP>>
    \o Concat([i \in 1..Len(cells) |->
           PadRight(cells[i], column_widths[i]) \o <<SP>>
           \o (IF i - 1 < Len(cells) - 1 THEN <<Chr("U+2502"), SP>> ELSE <<>>)])
    \o <<Chr("U+2551")>> \o reset_str \o <<NL>>

\* create_table: column_widths[i] panics for a cell beyond the last header.
create_table(headers, rows, color) ==
    LET column_widths == ColumnWidths(headers, rows)
        color_str == ColorPrefix(color)
        reset_str == ResetIfSome(color)
    IN  IF \E r \in 1..Len(rows) : Len(rows[r]) > Len(column_widths)
        THEN Panic(<<>>)
        ELSE Ok(TableBorder(column_widths, "U+2554", "U+2566", "U+2557", color_str, reset_str)
                \o TableLine(headers, column_widths, color_str, reset_str)
                \o TableBorder(column_widths, "U+2560", "U+256C", "U+2563", color_str, reset_str)
                \o Concat([r \in 1..Len(rows) |->
                       TableLine(rows[r], column_widths, color_str, reset_str)])
                \o TableBorder(column_widths, "U+255A", "U+2569", "U+255D", color_str, reset_str),
                <<>>)

-----------------------------------------------------------------------------
(* styles/banners.rs *)

RECURSIVE SplitNL(_)
\* The pieces of a string between its newlines.
SplitNL(s) ==
    IF \A i \in 1..Len(s) : s[i] # NL THEN <<s>>
    ELSE LET i == CHOOSE j \in 1..Len(s) : s[j] = NL /\ \A h \in 1..(j - 1) : s[h] # NL
         IN  <<SubSeq(s, 1, i - 1)>> \o SplitNL(SubSeq(s, i + 1, Len(s)))

\* str::lines(): a final empty piece is no line (the strings here hold no "\r")
Lines(s) ==
    LET pieces == SplitNL(s)
    IN  IF pieces[Len(pieces)] = <<>> THEN SubSeq(pieces, 1, Len(pieces) - 1) ELSE pieces

IsSpace(tok) == tok = SP \/ tok = NL

\* str::trim_end(): everything up to the last character that is no white space
trim_end(s) ==
    LET keep == {i \in 1..Len(s) : ~IsSpace(s[i])}
    IN  IF keep = {} THEN <<>>
        ELSE SubSeq(s, 1, CHOOSE i \in keep : \A j \in keep : j <= i)

\* let text_start = match self.position.  A subtraction that underflows panics
\* with overflow checks and wraps without them; wrapped marks a value of at
\* least 2^62 (2^64 - d or (2^64 - d) / 2 for a small d).
TextStart(position, total_lines, text_count, overflow_checks) ==
    IF position = "Top" THEN [outcome |-> "ok", wrapped |-> FALSE, at |-> 0]
    ELSE IF total_lines < text_count
    THEN [outcome |-> IF overflow_checks THEN "panic" ELSE "ok", wrapped |-> TRUE, at |-> 0]
    ELSE IF position = "Middle"
    THEN [outcome |-> "ok", wrapped |-> FALSE, at |-> (total_lines - text_count) \div 2]
    ELSE [outcome |-> "ok", wrapped |-> FALSE, at |-> total_lines - text_count]

\* The text line next to art line i (counted from 0).
TextLineAt(i, text_start, text_lines) ==
    IF ~text_start.wrapped /\ i >= text_start.at /\ i < text_start.at + Len(text_lines)
    THEN text_lines[(i - text_start.at) + 1]
    ELSE <<>>

\* Banner::render
render(ascii_art, text, padding, position, size, overflow_checks) ==
    LET ascii_lines == Lines(ascii_art)
        text_lines  == Lines(text)
        ascii_width == MaxOf([i \in 1..Len(ascii_lines) |-> ByteLen(ascii_lines[i])])
        total_lines == Len(ascii_lines)
        text_start  == TextStart(position, total_lines, Len(text_lines), overflow_checks)
        centered    == [i \in 0..(total_lines - 1) |->
                            center_text(TextLineAt(i, text_start, text_lines),
                                        size, overflow_checks)]
        failed      == {i \in 0..(total_lines - 1) : centered[i].outcome # "ok"}
    IN  IF text_start.outcome = "panic" THEN Panic(<<>>)
        ELSE IF failed # {}
        THEN centered[CHOOSE i \in failed : \A j \in failed : i <= j]
        ELSE Ok(trim_end(Concat([k \in 1..total_lines |->
                    PadRight(ascii_lines[k], ascii_width)
                    \o Repeat(SP, padding)
                    \o centered[k - 1].value
                    \o <<NL>>])),
                <<>>)

\* create_banner
create_banner(ascii_art, text, padding, position, size, overflow_checks) ==
    render(ascii_art, text, padding, position, size, overflow_checks)

-----------------------------------------------------------------------------
(* The inputs the calls are made with *)

\* Channel values on both sides of every band of to_256_color, and the colours
\* it is called with: every combination of those, and every value of one
\* channel next to extreme values of the other two.
Channels == {0, 50, 51, 101, 102, 152, 153, 203, 204, 254, 255}
Extremes == {0, 255}
CubeColors ==
    {Color(r, g, b) : r \in Channels, g \in Channels, b \in Channels}
    \cup {Color(x, g, b) : x \in ChannelType, g \in Extremes, b \in Extremes}
    \cup {Color(r, x, b) : x \in ChannelType, r \in Extremes, b \in Extremes}
    \cup {Color(r, g, x) : x \in ChannelType, r \in Extremes, g \in Extremes}
FadeColors == {BLACK, RED, WHITE, Color(255, 127, 0), Color(75, 0, 130)}
PrintColors == {RED, BLUE}
OptColors == {None} \cup {Some(c) : c \in PrintColors}
EffectTexts == SeqsUpTo({Chr("a"), Chr("B")}, MaxTextLen)
\* Settings of the effects that repeat (iterations matters, width is not read)
\* and of the bars (width matters, iterations is not read).
Settings ==
    [delay : {default_settings.delay}, iterations : 0..MaxIterations,
     width : {default_settings.width}]
BarSettings ==
    [delay : {default_settings.delay}, iterations : {default_settings.iterations},
     width : 1..MaxWidth]
\* loading_bar(total, settings, _): the small totals and widths, and the
\* smallest total and width where the f32 product i/total * width falls below
\* an integer quotient.
BarCases ==
    ((0..MaxTotal) \X BarSettings) \cup {<<22, [default_settings EXCEPT !.width = 22]>>}
Styles == 0..3
RngValues == {0, Len(symbols) - 1}
TermSizes == {None, Some(1), Some(4)}
LayoutTexts == SeqsUpTo({Chr("a"), Chr("E9")}, MaxStrLen)
Cells == {<<>>, <<Chr("a")>>, <<Chr("E9"), Chr("a")>>}
BannerArts == SeqsUpTo({Chr("a"), NL}, MaxArtLen)
BannerTexts == SeqsUpTo({Chr("a"), NL}, MaxStrLen)
Positions == {"Top", "Middle", "Bottom"}

-----------------------------------------------------------------------------------------------------------------------------------------------------
(* The state machine *)

Idle == [op |-> "none"]
Unit == [outcome |-> "ok", value |-> <<>>]

Init ==
    /\ call = Idle
    /\ ret = Unit
    /\ stdout = <<>>
    /\ term = <<>>

\* What the caller gets of a result.
Result(r) == [outcome |-> r.outcome, value |-> r.value]

\* The caller takes the result of a call that returned and goes on; a panic or
\* an abort ends the program.
Resume ==
    /\ call.op # "none"
    /\ ret.outcome = "ok"
    /\ call' = Idle
    /\ ret' = Unit
    /\ stdout' = <<>>
    /\ term' = term

CallFadeColor ==
    \E start \in FadeColors, end \in FadeColors, steps \in 0..MaxSteps :
        LET r == Ok(fade_color(start, end, steps), <<>>)
        IN  /\ call.op = "none"
            /\ call' = [op |-> "fade_color", start |-> start, end |-> end, steps |-> steps]
            /\ ret' = Result(r)
            /\ stdout' = r.out
            /\ term' = LastEscape(term, r.out)

CallTo256Color ==
    \E color \in CubeColors :
        LET r == Ok(to_256_color(color), <<>>)
        IN  /\ call.op = "none"
            /\ call' = [op |-> "to_256_color", color |-> color]
            /\ ret' = Result(r)
            /\ stdout' = r.out
            /\ term' = LastEscape(term, r.out)

CallCenterText ==
    \E text \in LayoutTexts, size \in TermSizes, overflow_checks \in BOOLEAN :
        LET r == center_text(text, size, overflow_checks)
        IN  /\ call.op = "none"
            /\ call' = [op |-> "center_text", text |-> text, size |-> size,
                         overflow_checks |-> overflow_checks]
            /\ ret' = Result(r)
            /\ stdout' = r.out
            /\ term' = LastEscape(term, r.out)

CallCreateTable ==
    \E headers \in SeqsUpTo(Cells, MaxCols),
       rows \in SeqsUpTo(SeqsUpTo(Cells, MaxCells), MaxRows),
       color \in {None, Some(RED)} :
        LET r == create_table(headers, rows, color)
        IN  /\ call.op = "none"
            /\ call' = [op |-> "create_table", headers |-> headers, rows |-> rows,
                         color |-> color]
            /\ ret' = Result(r)
            /\ stdout' = r.out
            /\ term' = LastEscape(term, r.out)

CallCreateBanner ==
    \E ascii_art \in BannerArts, text \in BannerTexts, padding \in 0..MaxPadding,
       position \in Positions, size \in TermSizes, overflow_checks \in BOOLEAN :
        LET r == create_banner(ascii_art, text, padding, position, size, overflow_checks)
        IN  /\ call.op = "none"
            /\ call' = [op |-> "create_banner", ascii_art |-> ascii_art, text |-> text,
                         padding |-> padding, position |-> position, size |-> size,
                         overflow_checks |-> overflow_checks]
            /\ ret' = Result(r)
            /\ stdout' = r.out
            /\ term' = LastEscape(term, r.out)

CallPrintColored ==
    \E text \in EffectTexts, color \in PrintColors :
        LET r == print_colored(text, color)
        IN  /\ call.op = "none"
            /\ call' = [op |-> "print_colored", text |-> text, color |-> color]
            /\ ret' = Result(r)
            /\ stdout' = r.out
            /\ term' = LastEscape(term, r.out)

CallPrintlnColored ==
    \E text \in EffectTexts, color \in PrintColors :
        LET r == println_colored(text, color)
        IN  /\ call.op = "none"
            /\ call' = [op |-> "println_colored", text |-> text, color |-> color]
            /\ ret' = Result(r)
            /\ stdout' = r.out
            /\ term' = LastEscape(term, r.out)

CallPrintFade ==
    \E text \in EffectTexts, colors \in SeqsUpTo(PrintColors, MaxColors) :
        LET r == print_fade(text, colors)
        IN  /\ call.op = "none"
            /\ call' = [op |-> "print_fade", text |-> text, colors |-> colors]
            /\ ret' = Result(r)
            /\ stdout' = r.out
            /\ term' = LastEscape(term, r.out)

CallTypewriter ==
    \E text \in EffectTexts, settings \in Settings, color \in OptColors :
        LET r == typewriter(text, settings, color)
        IN  /\ call.op = "none"
            /\ call' = [op |-> "typewriter", text |-> text, settings |-> settings,
                         color |-> color]
            /\ ret' = Result(r)
            /\ stdout' = r.out
            /\ term' = LastEscape(term, r.out)

CallLoadingBar ==
    \E args \in BarCases, color \in PrintColors :
        LET total == args[1]
            settings == args[2]
            r == loading_bar(total, settings, color)
        IN  /\ call.op = "none"
            /\ call' = [op |-> "loading_bar", total |-> total, settings |-> settings,
                         color |-> color]
            /\ ret' = Result(r)
            /\ stdout' = r.out
            /\ term' = LastEscape(term, r.out)

CallWiggle ==
    \E text \in EffectTexts, settings \in Settings, color \in OptColors :
        LET r == wiggle(text, settings, color)
        IN  /\ call.op = "none"
            /\ call' = [op |-> "wiggle", text |-> text, settings |-> settings,
                         color |-> color]
            /\ ret' = Result(r)
            /\ stdout' = r.out
            /\ term' = LastEscape(term, r.out)

CallMatrixEffect ==
    \E text \in EffectTexts, settings \in Settings, color \in OptColors :
        \E draws \in [1..(settings.iterations * DrawsPerPass(Len(text))) -> RngValues] :
            LET r == matrix_effect(text, settings, color, draws)
            IN  /\ call.op = "none"
                /\ call' = [op |-> "matrix_effect", text |-> text, settings |-> settings,
                             color |-> color]
                /\ ret' = Result(r)
                /\ stdout' = r.out
                /\ term' = LastEscape(term, r.out)

CallRainbowText ==
    \E text \in EffectTexts, settings \in Settings :
        LET r == rainbow_text(text, settings)
        IN  /\ call.op = "none"
            /\ call' = [op |-> "rainbow_text", text |-> text, settings |-> settings]
            /\ ret' = Result(r)
            /\ stdout' = r.out
            /\ term' = LastEscape(term, r.out)

CallProgressSpinner ==
    \E total \in 0..MaxTotal, settings \in BarSettings, color \in PrintColors,
       style \in Styles :
        LET r == progress_spinner(total, settings, color, style)
        IN  /\ call.op = "none"
            /\ call' = [op |-> "progress_spinner", total |-> total, settings |-> settings,
                         color |-> color, style |-> style]
            /\ ret' = Result(r)
            /\ stdout' = r.out
            /\ term' = LastEscape(term, r.out)

\* The colour model
NextColor == CallFadeColor \/ CallTo256Color \/ Resume
SpecColor == Init /\ [][NextColor]_vars

\* The layout functions
NextLayout == CallCenterText \/ CallCreateTable \/ CallCreateBanner \/ Resume
SpecLayout == Init /\ [][NextLayout]_vars

\* The functions that write to standard output
Next ==
    \/ CallPrintColored
    \/ CallPrintlnColored
    \/ CallPrintFade
    \/ CallTypewriter
    \/ CallLoadingBar
    \/ CallWiggle
    \/ CallMatrixEffect
    \/ CallRainbowText
    \/ CallProgressSpinner
    \/ Resume
Spec == Init /\ [][Next]_vars

-----------------------------------------------------------------------------
(* Properties *)

CallFields ==
    {"op", "ascii_art", "text", "start", "end", "steps", "headers", "rows", "total",
     "settings", "color", "colors", "style", "padding", "position", "size",
     "overflow_checks"}

TypeOK ==
    /\ DOMAIN call \subseteq CallFields
    /\ ret.outcome \in Outcomes
    /\ stdout \in StringType
    /\ term \in StringType /\ Len(term) <= 1

HasColorSeq(s) == \E i \in 1..Len(s) : IsColorSeq(s[i])

\* C1: fade_color(start, end, steps) returns exactly `steps` colours; for
\* steps >= 2 the first is start and the last is end; for steps = 1 it returns
\* the single colour start, without a panic.
C1_FadeColorEnds ==
    call.op = "fade_color" =>
        /\ ret.outcome = "ok"
        /\ Len(ret.value) = call.steps
        /\ call.steps >= 2 =>
               ret.value[1] = call.start /\ ret.value[call.steps] = call.end
        /\ call.steps = 1 => ret.value = <<call.start>>

\* C2: print_fade with an empty text or an empty colour list does nothing: it
\* returns without a panic and writes nothing to standard output.
C2_PrintFadeNoOp ==
    (call.op = "print_fade" /\ (call.text = <<>> \/ call.colors = <<>>)) =>
        ret.outcome = "ok" /\ stdout = <<>>

\* C3: center_text returns the text after (W - len) / 2 spaces when the text
\* fits the terminal width W, and the text itself, with no underflow and no
\* panic, when it is longer (stated for texts of one-byte characters, where
\* the length in bytes and in characters agree).
C3_CenterTextClamped ==
    (call.op = "center_text" /\ ByteLen(call.text) = Len(call.text)) =>
        /\ ret.outcome = "ok"
        /\ ret.value =
               IF Len(call.text) <= TerminalWidth(call.size)
               THEN Repeat(SP, (TerminalWidth(call.size) - Len(call.text)) \div 2)
                    \o call.text
               ELSE call.text

\* text_start as C4 states it: clamped to zero when the text has more lines.
ClampedTextStart(position, art_count, text_count) ==
    IF position = "Top" \/ art_count < text_count THEN 0
    ELSE IF position = "Middle" THEN (art_count - text_count) \div 2
    ELSE art_count - text_count

\* The banner C4 describes.
ClampedBanner(c) ==
    LET art    == Lines(c.ascii_art)
        txt    == Lines(c.text)
        first  == ClampedTextStart(c.position, Len(art), Len(txt))
        artw   == MaxOf([i \in 1..Len(art) |-> ByteLen(art[i])])
        pair(i) == IF first <= i /\ i < first + Len(txt) THEN txt[(i - first) + 1] ELSE <<>>
    IN  trim_end(Concat([k \in 1..Len(art) |->
            PadRight(art[k], artw) \o Repeat(SP, c.padding)
            \o center_text(pair(k - 1), c.size, c.overflow_checks).value \o <<NL>>]))

\* C4: Banner::render pairs art line i with text_lines[i - text_start] for
\* text_start <= i < text_start + textLineCount and with the empty string
\* otherwise; text_start is clamped to zero, with no panic, when the text has
\* more lines than the art (stated for text lines that fit the terminal, so
\* that centring them succeeds).
C4_BannerPairsClamped ==
    (/\ call.op = "create_banner"
     /\ \A i \in 1..Len(Lines(call.text)) :
            ByteLen(Lines(call.text)[i]) <= TerminalWidth(call.size)) =>
        ret.outcome = "ok" /\ ret.value = ClampedBanner(call)

\* The lines of a rendered table, and what C5 measures of one.
Separators(line) == Len(SelectSeq(line, LAMBDA tok : tok = Chr("U+2502")))
Columns(line) == Len(SelectSeq(line, LAMBDA tok : tok.kind = "chr"))

\* C5: every data row of create_table has one cell per header, a missing cell
\* being rendered empty and padded, so each row line has as many cells and is
\* as wide as the header line (stated for rows no longer than the headers).
C5_TableRowsFull ==
    (/\ call.op = "create_table"
     /\ \A r \in 1..Len(call.rows) : Len(call.rows[r]) <= Len(call.headers)) =>
        /\ ret.outcome = "ok"
        /\ \A r \in 1..Len(call.rows) :
               LET lines == Lines(ret.value)
               IN  /\ Separators(lines[3 + r]) = Separators(lines[2])
                   /\ Columns(lines[3 + r]) = Columns(lines[2])

\* C6: create_table never indexes the column widths out of bounds when the
\* headers are empty, the rows are empty or a row has no cells, whatever the
\* other headers and rows are.
C6_TableEmptyInputs ==
    (/\ call.op = "create_table"
     /\ \/ call.headers = <<>>
        \/ call.rows = <<>>
        \/ \E r \in 1..Len(call.rows) : call.rows[r] = <<>>) =>
        ret.outcome = "ok"

\* C7: whenever a call that wrote at least one colour escape sequence has
\* returned, the last escape sequence standard output has received is RESET.
C7_ResetIsLast ==
    (ret.outcome = "ok" /\ HasColorSeq(stdout)) => term = <<RESET>>

C7_Witness ==
    /\ call.op = "progress_spinner"
    /\ ret.outcome = "ok"
    /\ HasColorSeq(stdout)
    /\ term = <<RESET>>

\* C8: to_256_color returns 16 + 36*(r*5/255) + 6*(g*5/255) + (b*5/255) with
\* truncating division, the result is in 16..231, and no step overflows.
C8_To256Color ==
    call.op = "to_256_color" =>
        LET c == call.color
        IN  /\ ret.value.value =
                   16 + 36 * ((c[1] * 5) \div 255) + 6 * ((c[2] * 5) \div 255)
                   + ((c[3] * 5) \div 255)
            /\ ret.value.value \in 16..231
            /\ ~ret.value.overflow

C8_Witness ==
    /\ call.op = "to_256_color"
    /\ call.color = RED
    /\ ret.value.value = 196

\* C9: typewriter, wiggle and matrix_effect write RESET exactly once, after
\* the last frame, when a colour is given, and no escape sequence at all when
\* the colour is None.
C9_ResetOnceAtEnd ==
    call.op \in {"typewriter", "wiggle", "matrix_effect"} =>
        IF call.color = None
        THEN Escapes(stdout) = <<>>
        ELSE /\ Cardinality({i \in 1..Len(stdout) : stdout[i] = RESET}) = 1
             /\ \A i \in 1..Len(stdout) :
                    stdout[i] = RESET => \A j \in (i + 1)..Len(stdout) : stdout[j] = NL

C9_Witness ==
    /\ call.op = "wiggle"
    /\ call.color # None
    /\ Len(call.text) >= 2
    /\ call.settings.iterations >= 2
    /\ ret.outcome = "ok"
    /\ stdout[Len(stdout) - 1] = RESET

\* What progress_spinner writes when frame i shows glyph i mod count(style).
SpinnerOutput(c, count(_)) ==
    Concat([k \in 1..(c.total + 1) |->
        <<CR, ColorSeq(c.color),
          Chr(spinner_chars(c.style)[((k - 1) % count(c.style)) + 1]), SP>>
        \o ToDecimal(k - 1) \o <<Chr("/")>> \o ToDecimal(c.total)])
    \o <<RESET, NL>>

\* The glyph counts as C10 states them, and as amended.
EightBrailleGlyphs(style) == IF style = 1 \/ style = 2 THEN 8 ELSE 4
TenBrailleGlyphs(style) == IF style = 1 THEN 10 ELSE IF style = 2 THEN 8 ELSE 4

\* C10 as stated: progress_spinner draws the frames i = 0..total in order,
\* frame i showing glyph i mod glyphCount and the counter i/total, with 4
\* default glyphs, eight Braille glyphs for style 1 and eight arrows for style
\* 2, then RESET and a newline.
C10_SpinnerEightBraille ==
    call.op = "progress_spinner" =>
        ret.outcome = "ok" /\ stdout = SpinnerOutput(call, EightBrailleGlyphs)

\* C10 amended: the same with ten Braille glyphs for style 1.
C10_SpinnerFrames ==
    call.op = "progress_spinner" =>
        /\ ret.outcome = "ok"
        /\ Len(spinner_chars(call.style)) = TenBrailleGlyphs(call.style)
        /\ stdout = SpinnerOutput(call, TenBrailleGlyphs)

C10_Witness ==
    /\ call.op = "progress_spinner"
    /\ call.style = 1
    /\ call.total >= 10
    /\ ret.outcome = "ok"
    /\ stdout = SpinnerOutput(call, TenBrailleGlyphs)

-----------------------------------------------------------------------------
(* loading_bar frames *)

\* The frames of a redrawn line: each begins at a carriage return.
FramesOf(out) ==
    LET starts == {k \in 1..Len(out) : out[k] = CR}
        endOf(k) == IF \E j \in starts : j > k
                    THEN (CHOOSE j \in starts : j > k /\ \A h \in starts : h > k => j <= h) - 1
                    ELSE Len(out)
        nth[n \in 1..Cardinality(starts)] ==
            CHOOSE k \in starts : Cardinality({j \in starts : j <= k}) = n
    IN  [n \in 1..Cardinality(starts) |-> SubSeq(out, nth[n], endOf(nth[n]))]

\* The cells of the bar of one frame: what stands between "[" and "]".
BarCells(frame) ==
    LET open  == CHOOSE k \in 1..Len(frame) : frame[k] = Chr("[")
        close == CHOOSE k \in 1..Len(frame) : frame[k] = Chr("]")
    IN  SubSeq(frame, open + 1, close - 1)

\* floor(i * width / total); the last frame (i = total) is completely filled.
FilledCells(i, total, width) == IF i = total THEN width ELSE (i * width) \div total

\* C11: loading_bar draws exactly total + 1 frames, for i = 0, 1, ..., total in
\* that order, for every total >= 0 and width > 0; the bar of frame i has
\* exactly `width` cells, the first floor(i * width / total) of them filled and
\* the rest empty; the last frame is completely filled, and a newline is
\* written after it.
C11_LoadingBarFrames ==
    call.op = "loading_bar" =>
        LET frames == FramesOf(stdout)
            width  == call.settings.width
        IN  /\ ret.outcome = "ok"
            /\ Len(frames) = call.total + 1
            /\ \A n \in 1..Len(frames) :
                   LET frame  == IF n = Len(frames)
                                 THEN SubSeq(frames[n], 1, Len(frames[n]) - 1)
                                 ELSE frames[n]
                       filled == FilledCells(n - 1, call.total, width)
                   IN  /\ BarCells(frame) = Repeat(Chr("U+2593"), filled)
                                             \o Repeat(Chr("U+2591"), width - filled)
                       /\ SubSeq(frame, Len(frame) - Len(ToDecimal(call.total)) - 1
                                             - Len(ToDecimal(n - 1)), Len(frame) - 1)
                          = ToDecimal(n - 1) \o <<Chr("/")>> \o ToDecimal(call.total)
            /\ stdout[Len(stdout)] = NL
            /\ \A k \in 1..(Len(stdout) - 1) : stdout[k] # NL

=============================================================================
